---------------------------- MODULE Spec2Model ----------------------------
(***************************************************************************)
(* A model of the JCE codec of serde-jce: the Serializer of src/ser.rs,    *)
(* the Deserializer of src/de.rs and the entry points of src/lib.rs.       *)
(*                                                                         *)
(* Bytes are the integers 0..255 and a byte stream is a sequence of them.  *)
(* A fixed-width integer is the sequence of its big-endian two's           *)
(* complement bytes (what to_be_bytes() yields), so that 64-bit values,    *)
(* casts between widths and sign or zero extension are explicit.           *)
(***************************************************************************)
EXTENDS Integers, Sequences, FiniteSets, TLC

(***************************************************************************)
(* Bytes and bit operations on u8.                                         *)
(***************************************************************************)
Byte == 0..255

RECURSIVE BitAnd(_, _)
BitAnd(a, b) ==
    IF a = 0 \/ b = 0 THEN 0
    ELSE (a % 2) * (b % 2) + 2 * BitAnd(a \div 2, b \div 2)

RECURSIVE BitOr(_, _)
BitOr(a, b) ==
    IF a = 0 THEN b
    ELSE IF b = 0 THEN a
    ELSE (IF a % 2 = 1 \/ b % 2 = 1 THEN 1 ELSE 0) + 2 * BitOr(a \div 2, b \div 2)

\* u8 << n and u8 >> n (bits shifted out are lost)
Shl(a, n) == (a * (2 ^ n)) % 256
Shr(a, n) == a \div (2 ^ n)

Rep(x, n) == [i \in 1..n |-> x]

\* the last n elements of a sequence (n <= Len(s))
Low(s, n) == SubSeq(s, Len(s) - n + 1, Len(s))

Drop(s, n) == SubSeq(s, n + 1, Len(s))

Min(a, b) == IF a <= b THEN a ELSE b

\* `let v = x; F(v)`: x is evaluated once and F is applied to its value
Let(x, F(_)) == CHOOSE y \in {F(v) : v \in {x}} : TRUE

(***************************************************************************)
(* Integers as big-endian two's complement byte sequences.                 *)
(***************************************************************************)
\* `x as i64` from a signed narrower type: sign extension
SignExtend(b, w) == Rep(IF b[1] >= 128 THEN 255 ELSE 0, w - Len(b)) \o b

\* `x as i64` from an unsigned narrower type: zero extension
ZeroExtend(b, w) == Rep(0, w - Len(b)) \o b

\* `x as iN` / `x as uN` to a narrower or equal width: truncation
Truncate(b, w) == Low(b, w)

\* signed comparison of two values of the same width
RECURSIVE LexLe(_, _)
LexLe(a, b) ==
    IF a = <<>> THEN TRUE
    ELSE IF a[1] < b[1] THEN TRUE
    ELSE IF a[1] > b[1] THEN FALSE
    ELSE LexLe(Tail(a), Tail(b))

Flip(b) == <<(b[1] + 128) % 256>> \o Tail(b)

SLe(a, b) == LexLe(Flip(a), Flip(b))

\* the bytes of a small integer n (|n| < 2^31) at width w
RECURSIVE BytesOf(_, _)
BytesOf(n, w) ==
    IF w = 0 THEN <<>>
    ELSE IF w > 4 THEN Rep(IF n < 0 THEN 255 ELSE 0, w - 4) \o BytesOf(n, 4)
    ELSE BytesOf(n \div 256, w - 1) \o <<n % 256>>

\* i8::MIN as i64 ... i32::MAX as i64
I8_MIN == SignExtend(<<128>>, 8)
I8_MAX == SignExtend(<<127>>, 8)
I16_MIN == SignExtend(<<128, 0>>, 8)
I16_MAX == SignExtend(<<127, 255>>, 8)
I32_MIN == SignExtend(<<128, 0, 0, 0>>, 8)
I32_MAX == SignExtend(<<127, 255, 255, 255>>, 8)

\* an i64 used as a length or count (`as usize`, `0..len`): its value when
\* it is in 0..2^31-1, -1 when it is negative, -2 when it is larger
AsCount(b) ==
    IF b[1] >= 128 THEN -1
    ELSE IF SubSeq(b, 1, 4) = <<0, 0, 0, 0>> /\ b[5] < 128
    THEN ((b[5] * 256 + b[6]) * 256 + b[7]) * 256 + b[8]
    ELSE -2

(***************************************************************************)
(* Option<T>: None is the empty sequence, Some(x) is <<x>>.                *)
(***************************************************************************)
None == <<>>
Some(x) == <<x>>
unwrap_or(o, d) == IF o = None THEN d ELSE o[1]

(***************************************************************************)
(* The Serializer (src/ser.rs).  st is the Result of the calls made so     *)
(* far: "ok", "err" (an Err was returned) or "panic".                      *)
(***************************************************************************)
Serializer_new ==
    [writer |-> <<>>, next_tag |-> None, depth |-> 0, index |-> 0, st |-> "ok"]

write_all(s, bytes) == [s EXCEPT !.writer = @ \o bytes]

\* a faulty write_head that keeps tag 15 in the one-byte form (`tag <= 15`)
write_head_short15(s, tag, typ) ==
    IF tag <= 15
    THEN write_all(s, <<(Shl(tag, 4) + typ) % 256>>)
    ELSE write_all(s, <<BitOr(Shl(15, 4), typ), tag>>)

write_head(s, tag, typ) ==
    IF tag < 15
    THEN write_all(s, <<BitOr(Shl(tag, 4), typ)>>)
    ELSE write_all(s, <<BitOr(Shl(15, 4), typ), tag>>)

\* a faulty write_number whose one-byte range ends below i8::MAX
\* (`n < i8::MAX as i64`)
write_number_below_max(s, v) ==
    LET tag == unwrap_or(s.next_tag, 0)
        s1 == [s EXCEPT !.next_tag = None]
    IN  IF v = Rep(0, 8) THEN write_head(s1, tag, 12)
        ELSE IF SLe(I8_MIN, v) /\ SLe(v, I8_MAX) /\ v # I8_MAX
        THEN write_all(write_head(s1, tag, 0), Truncate(v, 1))
        ELSE IF SLe(I16_MIN, v) /\ SLe(v, I16_MAX)
        THEN write_all(write_head(s1, tag, 1), Truncate(v, 2))
        ELSE IF SLe(I32_MIN, v) /\ SLe(v, I32_MAX)
        THEN write_all(write_head(s1, tag, 2), Truncate(v, 4))
        ELSE write_all(write_head(s1, tag, 3), v)

write_number(s, v) ==
    LET tag == unwrap_or(s.next_tag, 0)
        s1 == [s EXCEPT !.next_tag = None]
    IN  IF v = Rep(0, 8) THEN write_head(s1, tag, 12)
        ELSE IF SLe(I8_MIN, v) /\ SLe(v, I8_MAX)
        THEN write_all(write_head(s1, tag, 0), Truncate(v, 1))
        ELSE IF SLe(I16_MIN, v) /\ SLe(v, I16_MAX)
        THEN write_all(write_head(s1, tag, 1), Truncate(v, 2))
        ELSE IF SLe(I32_MIN, v) /\ SLe(v, I32_MAX)
        THEN write_all(write_head(s1, tag, 2), Truncate(v, 4))
        ELSE write_all(write_head(s1, tag, 3), v)

serialize_bool(s, v) ==
    IF ~v THEN write_number(s, BytesOf(0, 8)) ELSE write_number(s, BytesOf(1, 8))

serialize_i8(s, v) == write_number(s, SignExtend(v, 8))
serialize_i16(s, v) == write_number(s, SignExtend(v, 8))
serialize_i32(s, v) == write_number(s, SignExtend(v, 8))
serialize_i64(s, v) == write_number(s, v)
serialize_u8(s, v) == write_number(s, ZeroExtend(v, 8))
serialize_u16(s, v) == write_number(s, ZeroExtend(v, 8))
serialize_u32(s, v) == write_number(s, ZeroExtend(v, 8))
serialize_u64(s, v) == write_number(s, v)

serialize_f32(s, v) ==
    LET tag == unwrap_or(s.next_tag, 0)
    IN  write_all(write_head([s EXCEPT !.next_tag = None], tag, 4), v)

serialize_f64(s, v) ==
    LET tag == unwrap_or(s.next_tag, 0)
    IN  write_all(write_head([s EXCEPT !.next_tag = None], tag, 5), v)

serialize_str(s, v) ==
    LET len == Len(v)
        tag == unwrap_or(s.next_tag, 0)
        s1 == [s EXCEPT !.next_tag = None]
    IN  IF len <= 255
        THEN write_all(write_all(write_head(s1, tag, 6), <<len % 256>>), v)
        ELSE write_all(write_all(write_head(s1, tag, 7), BytesOf(len, 4)), v)

\* a faulty serialize_bytes that leaves out the marker byte after the header
serialize_bytes_no_marker(s, v) ==
    LET len == Len(v)
        tag == unwrap_or(s.next_tag, 0)
        s1 == write_head([s EXCEPT !.next_tag = None], tag, 13)
        s2 == write_number([s1 EXCEPT !.next_tag = Some(0)], BytesOf(len, 8))
    IN  write_all(s2, v)

serialize_bytes(s, v) ==
    LET len == Len(v)
        tag == unwrap_or(s.next_tag, 0)
        s1 == write_all(write_head([s EXCEPT !.next_tag = None], tag, 13), <<0>>)
        s2 == write_number([s1 EXCEPT !.next_tag = Some(0)], BytesOf(len, 8))
    IN  write_all(s2, v)

\* len is an Option<usize>
serialize_seq(s, len) ==
    LET tag == unwrap_or(s.next_tag, 0)
        s1 == write_head([s EXCEPT !.next_tag = None], tag, 9)
        s2 == write_number([s1 EXCEPT !.next_tag = Some(0)], BytesOf(unwrap_or(len, 0), 8))
    IN  [s2 EXCEPT !.index = 0]

serialize_map(s, len) ==
    LET tag == unwrap_or(s.next_tag, 0)
        s1 == write_head([s EXCEPT !.next_tag = None], tag, 8)
    IN  IF len = None THEN [s1 EXCEPT !.next_tag = Some(0), !.st = "panic"]
        ELSE write_number([s1 EXCEPT !.next_tag = Some(0)], BytesOf(len[1], 8))

serialize_struct(s) ==
    LET s1 == [s EXCEPT !.depth = @ + 1]
    IN  IF s1.next_tag # None THEN write_head(s1, s1.next_tag[1], 10) ELSE s1

serialize_none(s) == s

serialize_tuple(s, len) == serialize_seq(s, Some(len))


(***************************************************************************)
(* key.parse::<u8>() of a field name.  A string is a sequence of           *)
(* one-character strings.  The result is an Option<u8>.                    *)
(***************************************************************************)
Digits == <<"0", "1", "2", "3", "4", "5", "6", "7", "8", "9">>

IsDigit(c) == \E i \in 1..10 : Digits[i] = c

DigitVal(c) == (CHOOSE i \in 1..10 : Digits[i] = c) - 1

RECURSIVE ParseWrapping(_, _)
ParseWrapping(cs, acc) ==
    IF cs = <<>> THEN acc
    ELSE ParseWrapping(Tail(cs), (acc * 10 + DigitVal(cs[1])) % 256)

RECURSIVE ParseDigits(_, _)
ParseDigits(cs, acc) ==
    IF cs = <<>> THEN Some(acc)
    ELSE IF ~IsDigit(cs[1]) THEN None
    ELSE IF acc * 10 + DigitVal(cs[1]) > 255 THEN None
    ELSE ParseDigits(Tail(cs), acc * 10 + DigitVal(cs[1]))

\* a faulty parse that keeps the low 8 bits of a number above 255
parse_u8_wrapping(key) ==
    IF key = <<>> \/ \E i \in 1..Len(key) : ~IsDigit(key[i]) THEN None
    ELSE Some(ParseWrapping(key, 0))

parse_u8(key) ==
    IF key = <<>> THEN None
    ELSE IF Len(key) = 1 /\ key[1] \in {"+", "-"} THEN None
    ELSE IF key[1] = "+" THEN ParseDigits(Tail(key), 0)
    ELSE ParseDigits(key, 0)

\* u8::to_string()
to_string(n) ==
    IF n < 10 THEN <<Digits[n + 1]>>
    ELSE IF n < 100 THEN <<Digits[(n \div 10) + 1], Digits[(n % 10) + 1]>>
    ELSE <<Digits[(n \div 100) + 1], Digits[((n \div 10) % 10) + 1], Digits[(n % 10) + 1]>>

(***************************************************************************)
(* Application values, as the Serialize implementations of the host        *)
(* framework present them to the Serializer:                               *)
(*   [k |-> "int", ty |-> "i8".."u64", b |-> bytes]   an integer           *)
(*   [k |-> "bool", v |-> BOOLEAN]                                         *)
(*   [k |-> "f32" | "f64", b |-> bytes]       a float, by its bit pattern  *)
(*   [k |-> "str", s |-> bytes]               a String (UTF-8 bytes)       *)
(*   [k |-> "bytes", s |-> bytes]             a serde_bytes byte block     *)
(*   [k |-> "none", ty |-> type] and [k |-> "some", v |-> value]           *)
(*   [k |-> "seq", hint |-> Option<usize>, ety |-> type, items |-> <<..>>] *)
(*   [k |-> "tuple", items |-> <<..>>]                                     *)
(*   [k |-> "map", kty, vty |-> type, entries |-> << <<key, value>>.. >>]  *)
(*   [k |-> "map_kv", entries |-> ..]  a map whose Serialize calls         *)
(*                                     serialize_key and serialize_value   *)
(*   [k |-> "struct", fields |-> << [key |-> string, v |-> value] .. >>]   *)
(***************************************************************************)
RECURSIVE Serialize(_, _)

serialize_some(s, v) == Serialize(v, s)

SerializeStruct_serialize_field(s, key, value) ==
    LET tag == parse_u8(key)
    IN  IF tag = None THEN [s EXCEPT !.st = "err"]
        ELSE Serialize(value, [s EXCEPT !.next_tag = Some(tag[1])])

\* a faulty end that writes the sentinel whatever the depth
SerializeStruct_end_always(s) == write_all([s EXCEPT !.depth = @ - 1], <<11>>)

SerializeStruct_end(s) ==
    LET s1 == [s EXCEPT !.depth = @ - 1]
    IN  IF s1.depth # 0 THEN write_all(s1, <<11>>) ELSE s1

\* `self.index += 1` on a u8 panics on overflow when overflow checks are on
SerializeSeq_serialize_element(s, value) ==
    IF s.index = 255 THEN [s EXCEPT !.next_tag = Some(s.index), !.st = "panic"]
    ELSE Serialize(value, [s EXCEPT !.next_tag = Some(s.index), !.index = @ + 1])

SerializeSeq_end(s) == s

SerializeTuple_serialize_element(s, value) ==
    IF s.index = 255 THEN [s EXCEPT !.next_tag = Some(s.index), !.st = "panic"]
    ELSE Serialize(value, [s EXCEPT !.next_tag = Some(s.index), !.index = @ + 1])

SerializeTuple_end(s) == s

SerializeMap_serialize_entry(s, key, value) ==
    Let(Serialize(key, [s EXCEPT !.next_tag = Some(0)]), LAMBDA s1 :
        IF s1.st # "ok" THEN s1
        ELSE Serialize(value, [s1 EXCEPT !.next_tag = Some(1)]))

SerializeMap_serialize_key(s, key) == s

SerializeMap_serialize_value(s, value) == s

SerializeMap_end(s) == s

\* the element, entry and field loops of the Serialize implementations
RECURSIVE SeqElements(_, _)
SeqElements(s, items) ==
    IF items = <<>> \/ s.st # "ok" THEN s
    ELSE Let(SerializeSeq_serialize_element(s, items[1]), LAMBDA s1 :
            SeqElements(s1, Tail(items)))

RECURSIVE TupleElements(_, _)
TupleElements(s, items) ==
    IF items = <<>> \/ s.st # "ok" THEN s
    ELSE Let(SerializeTuple_serialize_element(s, items[1]), LAMBDA s1 :
            TupleElements(s1, Tail(items)))

RECURSIVE MapEntries(_, _)
MapEntries(s, entries) ==
    IF entries = <<>> \/ s.st # "ok" THEN s
    ELSE Let(SerializeMap_serialize_entry(s, entries[1][1], entries[1][2]), LAMBDA s1 :
            MapEntries(s1, Tail(entries)))

\* the entry loop of a Serialize implementation that hands over the key and
\* the value of an entry in two calls
RECURSIVE MapKeysValues(_, _)
MapKeysValues(s, entries) ==
    IF entries = <<>> \/ s.st # "ok" THEN s
    ELSE Let(SerializeMap_serialize_key(s, entries[1][1]), LAMBDA s1 :
            IF s1.st # "ok" THEN s1
            ELSE Let(SerializeMap_serialize_value(s1, entries[1][2]), LAMBDA s2 :
                    MapKeysValues(s2, Tail(entries))))

RECURSIVE StructFields(_, _)
StructFields(s, fields) ==
    IF fields = <<>> \/ s.st # "ok" THEN s
    ELSE Let(SerializeStruct_serialize_field(s, fields[1].key, fields[1].v), LAMBDA s1 :
            StructFields(s1, Tail(fields)))

serialize_int(s, ty, b) ==
    CASE ty = "i8" -> serialize_i8(s, b)
      [] ty = "i16" -> serialize_i16(s, b)
      [] ty = "i32" -> serialize_i32(s, b)
      [] ty = "i64" -> serialize_i64(s, b)
      [] ty = "u8" -> serialize_u8(s, b)
      [] ty = "u16" -> serialize_u16(s, b)
      [] ty = "u32" -> serialize_u32(s, b)
      [] ty = "u64" -> serialize_u64(s, b)

\* value.serialize(serializer)
Serialize(v, s) ==
    CASE v.k = "int" -> serialize_int(s, v.ty, v.b)
      [] v.k = "bool" -> serialize_bool(s, v.v)
      [] v.k = "f32" -> serialize_f32(s, v.b)
      [] v.k = "f64" -> serialize_f64(s, v.b)
      [] v.k = "str" -> serialize_str(s, v.s)
      [] v.k = "bytes" -> serialize_bytes(s, v.s)
      [] v.k = "none" -> serialize_none(s)
      [] v.k = "some" -> serialize_some(s, v.v)
      [] v.k = "seq" ->
            Let(serialize_seq(s, v.hint), LAMBDA s0 :
            Let(SeqElements(s0, v.items), LAMBDA s1 :
                IF s1.st # "ok" THEN s1 ELSE SerializeSeq_end(s1)))
      [] v.k = "tuple" ->
            Let(serialize_tuple(s, Len(v.items)), LAMBDA s0 :
            Let(TupleElements(s0, v.items), LAMBDA s1 :
                IF s1.st # "ok" THEN s1 ELSE SerializeTuple_end(s1)))
      [] v.k = "map" ->
            Let(serialize_map(s, Some(Len(v.entries))), LAMBDA s0 :
            Let(MapEntries(s0, v.entries), LAMBDA s1 :
                IF s1.st # "ok" THEN s1 ELSE SerializeMap_end(s1)))
      [] v.k = "map_kv" ->
            Let(serialize_map(s, Some(Len(v.entries))), LAMBDA s0 :
            Let(MapKeysValues(s0, v.entries), LAMBDA s1 :
                IF s1.st # "ok" THEN s1 ELSE SerializeMap_end(s1)))
      [] v.k = "struct" ->
            Let(serialize_struct(s), LAMBDA s0 :
            Let(StructFields(s0, v.fields), LAMBDA s1 :
                IF s1.st # "ok" THEN s1 ELSE SerializeStruct_end(s1)))

\* lib.rs: the bytes to_vec returns, as a Result
to_vec(value) == Serialize(value, Serializer_new)

(***************************************************************************)
(* The Deserializer (src/de.rs) over a byte slice.  reader is the part of  *)
(* the slice not read yet.  Every operation yields a record                *)
(*   [de |-> the Deserializer after the call,                              *)
(*    st |-> "ok", "err" (an Err was returned) or "panic",                 *)
(*    v  |-> the value of an Ok].                                          *)
(***************************************************************************)
Deserializer_new(slice) ==
    [reader |-> slice, peeked_header |-> None, current_type |-> None]

Unit == [k |-> "unit"]

Ok(de, v) == [de |-> de, st |-> "ok", v |-> v]
Err(de) == [de |-> de, st |-> "err", v |-> Unit]
Panic(de) == [de |-> de, st |-> "panic", v |-> Unit]
\* the propagation of an Err or a panic of a nested call
Fail(r) == [de |-> r.de, st |-> r.st, v |-> Unit]

\* `let x = r?; F(x)`: r is evaluated once; F sees its de and its value
Try(r, F(_)) == Let(r, LAMBDA x : IF x.st # "ok" THEN Fail(x) ELSE F(x))

\* <&[u8] as Read>::read_exact: n bytes, or an error that leaves the slice
\* empty when fewer are left.  n < 0 stands for a length above 2^31 - 1.
read_exact(de, n) ==
    IF n < 0 \/ n > Len(de.reader)
    THEN Err([de EXCEPT !.reader = <<>>])
    ELSE Ok([de EXCEPT !.reader = Drop(@, n)], SubSeq(de.reader, 1, n))

\* a faulty next_header that returns the pushed-back header and leaves it
\* in the slot (`self.peeked_header` without take())
next_header_keeps_slot(de) ==
    IF de.peeked_header # None
    THEN Ok(de, de.peeked_header[1])
    ELSE Try(read_exact(de, 1), LAMBDA r :
            LET tag == Shr(BitAnd(r.v[1], 240), 4)
                typ == BitAnd(r.v[1], 15)
            IN  IF tag = 15
                THEN Try(read_exact(r.de, 1), LAMBDA e : Ok(e.de, <<e.v[1], typ>>))
                ELSE Ok(r.de, <<tag, typ>>))

next_header(de) ==
    IF de.peeked_header # None
    THEN Ok([de EXCEPT !.peeked_header = None], de.peeked_header[1])
    ELSE Try(read_exact(de, 1), LAMBDA r :
            LET tag == Shr(BitAnd(r.v[1], 240), 4)
                typ == BitAnd(r.v[1], 15)
            IN  IF tag = 15
                THEN Try(read_exact(r.de, 1), LAMBDA e : Ok(e.de, <<e.v[1], typ>>))
                ELSE Ok(r.de, <<tag, typ>>))

peek_header(de, tag, typ) == [de EXCEPT !.peeked_header = Some(<<tag, typ>>)]

\* uN::from_be_bytes / fN::from_be_bytes of the bytes read: the value is
\* kept as its big-endian bytes
read_u8(de) == read_exact(de, 1)
read_u16(de) == read_exact(de, 2)
read_u32(de) == read_exact(de, 4)
read_u64(de) == read_exact(de, 8)
read_f32(de) == read_exact(de, 4)
read_f64(de) == read_exact(de, 8)

\* `r? as i64` of an unsigned read
AsI64(r) == Try(r, LAMBDA x : Ok(x.de, ZeroExtend(x.v, 8)))

\* a faulty get_raw_number that reads a type-4 value as a number
get_raw_number_type4(de) ==
    Try(next_header(de), LAMBDA h :
        LET typ == h.v[2]
        IN  CASE typ = 12 -> Ok(h.de, BytesOf(0, 8))
              [] typ = 0 -> AsI64(read_u8(h.de))
              [] typ = 1 -> AsI64(read_u16(h.de))
              [] typ \in {2, 4} -> AsI64(read_u32(h.de))
              [] typ = 3 -> AsI64(read_u64(h.de))
              [] OTHER -> Err(h.de))

get_raw_number(de) ==
    Try(next_header(de), LAMBDA h :
        LET typ == h.v[2]
        IN  CASE typ = 12 -> Ok(h.de, BytesOf(0, 8))
              [] typ = 0 -> AsI64(read_u8(h.de))
              [] typ = 1 -> AsI64(read_u16(h.de))
              [] typ = 2 -> AsI64(read_u32(h.de))
              [] typ = 3 -> AsI64(read_u64(h.de))
              [] OTHER -> Err(h.de))

get_number(de) ==
    IF de.current_type = None THEN Err(de)
    ELSE LET typ == de.current_type[1]
             d == [de EXCEPT !.current_type = None]
         IN  CASE typ = 12 -> Ok(d, BytesOf(0, 8))
               [] typ = 0 -> AsI64(read_u8(d))
               [] typ = 1 -> AsI64(read_u16(d))
               [] typ = 2 -> AsI64(read_u32(d))
               [] typ = 3 -> AsI64(read_u64(d))
               [] OTHER -> Err(d)

\* std::io::copy of reader.take(len) into a sink: up to len bytes, and no
\* error when fewer are left.  len < 0 stands for a length above 2^31 - 1.
ignore_bytes(de, len) ==
    IF len < 0 THEN Ok([de EXCEPT !.reader = <<>>], Unit)
    ELSE Ok([de EXCEPT !.reader = Drop(@, Min(len, Len(@)))], Unit)

(***************************************************************************)
(* std::str::from_utf8: whether the bytes are well-formed UTF-8: every     *)
(* byte that is not a continuation byte (128..191) starts a well-formed    *)
(* character, and every continuation byte lies inside one.                 *)
(***************************************************************************)
IsCont(s, i) == i >= 1 /\ i <= Len(s) /\ s[i] \in 128..191

InRange(s, i, lo, hi) == i <= Len(s) /\ s[i] \in lo..hi

CharLen(b) ==
    IF b < 128 THEN 1
    ELSE IF b \in 194..223 THEN 2
    ELSE IF b \in 224..239 THEN 3
    ELSE IF b \in 240..244 THEN 4
    ELSE 0

WellFormedAt(s, i) ==
    LET b == s[i]
    IN  CASE b < 128 -> TRUE
          [] b \in 194..223 -> IsCont(s, i + 1)
          [] b = 224 -> InRange(s, i + 1, 160, 191) /\ IsCont(s, i + 2)
          [] b \in (225..236) \cup {238, 239} -> IsCont(s, i + 1) /\ IsCont(s, i + 2)
          [] b = 237 -> InRange(s, i + 1, 128, 159) /\ IsCont(s, i + 2)
          [] b = 240 ->
                InRange(s, i + 1, 144, 191) /\ IsCont(s, i + 2) /\ IsCont(s, i + 3)
          [] b \in 241..243 -> IsCont(s, i + 1) /\ IsCont(s, i + 2) /\ IsCont(s, i + 3)
          [] b = 244 ->
                InRange(s, i + 1, 128, 143) /\ IsCont(s, i + 2) /\ IsCont(s, i + 3)
          [] OTHER -> FALSE

from_utf8_ok(s) ==
    \A i \in 1..Len(s) :
        IF IsCont(s, i)
        THEN \E back \in 1..3 :
                /\ i - back >= 1
                /\ ~IsCont(s, i - back)
                /\ CharLen(s[i - back]) > back
                /\ \A j \in (i - back + 1)..(i - 1) : IsCont(s, j)
        ELSE WellFormedAt(s, i)

\* BTreeMap<u8, Value>: a function from the tags present to their values
BTreeMap_new == <<>>

BTreeMap_insert(m, t, v) ==
    [x \in (DOMAIN m) \cup {t} |-> IF x = t THEN v ELSE m[x]]

(***************************************************************************)
(* skip_type: consume the value of type code typ without building it.      *)
(***************************************************************************)
RECURSIVE skip_type(_, _)

\* `for _ in 0..n { let (_, t) = self.next_header()?; self.skip_type(t)?; }`
\* n = -1 is a negative count (an empty range), n = -2 a count above
\* 2^31 - 1, which the stream ends before
RECURSIVE SkipLoop(_, _)
SkipLoop(de, n) ==
    IF n = 0 \/ n = -1 THEN Ok(de, Unit)
    ELSE Try(next_header(de), LAMBDA h :
         Try(skip_type(h.de, h.v[2]), LAMBDA r :
            SkipLoop(r.de, IF n < 0 THEN n ELSE n - 1)))

\* `loop { let (_, t) = self.next_header()?; if t == 11 { break; } self.skip_type(t)?; }`
RECURSIVE SkipStruct(_)
SkipStruct(de) ==
    Try(next_header(de), LAMBDA h :
        IF h.v[2] = 11 THEN Ok(h.de, Unit)
        ELSE Try(skip_type(h.de, h.v[2]), LAMBDA r : SkipStruct(r.de)))

\* `len * 2` as a loop bound
Twice(n) == IF n <= 0 THEN n ELSE IF n > 1073741823 THEN -2 ELSE 2 * n

Discard(r) == Try(r, LAMBDA x : Ok(x.de, Unit))

\* a faulty skip_type that reads the length of a type-7 string as one byte
skip_type_short_len(de, typ) ==
    CASE typ = 0 -> Discard(read_u8(de))
      [] typ = 1 -> Discard(read_u16(de))
      [] typ = 2 -> Discard(read_u32(de))
      [] typ = 3 -> Discard(read_u64(de))
      [] typ = 4 -> Discard(read_f32(de))
      [] typ = 5 -> Discard(read_f64(de))
      [] typ \in {6, 7} ->
            Try(read_u8(de), LAMBDA l :
                ignore_bytes(l.de, AsCount(ZeroExtend(l.v, 8))))
      [] typ = 8 ->
            Try(get_raw_number(de), LAMBDA l :
                IF l.v[1] \in 64..191 THEN Panic(l.de)
                ELSE SkipLoop(l.de, Twice(AsCount(l.v))))
      [] typ = 9 ->
            Try(get_raw_number(de), LAMBDA l : SkipLoop(l.de, AsCount(l.v)))
      [] typ = 10 -> SkipStruct(de)
      [] typ \in {11, 12} -> Ok(de, Unit)
      [] typ = 13 ->
            Try(next_header(de), LAMBDA h :
            Try(get_raw_number(h.de), LAMBDA l :
                ignore_bytes(l.de, AsCount(l.v))))
      [] OTHER -> Err(de)

\* `len * 2` on an i64 overflows, and panics with overflow checks on, when
\* the two top bits of len differ
skip_type(de, typ) ==
    CASE typ = 0 -> Discard(read_u8(de))
      [] typ = 1 -> Discard(read_u16(de))
      [] typ = 2 -> Discard(read_u32(de))
      [] typ = 3 -> Discard(read_u64(de))
      [] typ = 4 -> Discard(read_f32(de))
      [] typ = 5 -> Discard(read_f64(de))
      [] typ = 6 ->
            Try(read_u8(de), LAMBDA l :
                ignore_bytes(l.de, AsCount(ZeroExtend(l.v, 8))))
      [] typ = 7 ->
            Try(read_u32(de), LAMBDA l :
                ignore_bytes(l.de, AsCount(ZeroExtend(l.v, 8))))
      [] typ = 8 ->
            Try(get_raw_number(de), LAMBDA l :
                IF l.v[1] \in 64..191 THEN Panic(l.de)
                ELSE SkipLoop(l.de, Twice(AsCount(l.v))))
      [] typ = 9 ->
            Try(get_raw_number(de), LAMBDA l : SkipLoop(l.de, AsCount(l.v)))
      [] typ = 10 -> SkipStruct(de)
      [] typ \in {11, 12} -> Ok(de, Unit)
      [] typ = 13 ->
            Try(next_header(de), LAMBDA h :
            Try(get_raw_number(h.de), LAMBDA l :
                ignore_bytes(l.de, AsCount(l.v))))
      [] OTHER -> Err(de)

(***************************************************************************)
(* The Generic Value Tree (enum Value) and deserialize_any_value.          *)
(*   [k |-> "Byte" | "Int16" | "Int32" | "Int64" | "Float" | "Double",     *)
(*    b |-> bytes], [k |-> "String" | "Bytes", s |-> bytes],               *)
(*   [k |-> "Map", entries |-> << <<key, value>> .. >>],                   *)
(*   [k |-> "Struct", fields |-> BTreeMap], [k |-> "List", items |-> ..],  *)
(*   [k |-> "Zero"]                                                        *)
(***************************************************************************)
RECURSIVE deserialize_any_value(_, _)

\* `for _ in 0..len { key; value; map_vec.push((key, val)) }`
RECURSIVE AnyMapLoop(_, _, _)
AnyMapLoop(de, n, acc) ==
    IF n = 0 THEN Ok(de, [k |-> "Map", entries |-> acc])
    ELSE Try(next_header(de), LAMBDA kh :
         Try(deserialize_any_value(kh.de, kh.v[2]), LAMBDA key :
         Try(next_header(key.de), LAMBDA vh :
         Try(deserialize_any_value(vh.de, vh.v[2]), LAMBDA val :
            AnyMapLoop(val.de, n - 1, Append(acc, <<key.v, val.v>>))))))

RECURSIVE AnyListLoop(_, _, _)
AnyListLoop(de, n, acc) ==
    IF n = 0 THEN Ok(de, [k |-> "List", items |-> acc])
    ELSE Try(next_header(de), LAMBDA h :
         Try(deserialize_any_value(h.de, h.v[2]), LAMBDA item :
            AnyListLoop(item.de, n - 1, Append(acc, item.v))))

RECURSIVE AnyStructLoop(_, _)
AnyStructLoop(de, fields) ==
    Try(next_header(de), LAMBDA h :
        IF h.v[2] = 11
        THEN \* `let _ = self.next_header(); break;`
             Let(next_header(h.de), LAMBDA x :
                Ok(x.de, [k |-> "Struct", fields |-> fields]))
        ELSE Try(deserialize_any_value(h.de, h.v[2]), LAMBDA val :
                AnyStructLoop(val.de, BTreeMap_insert(fields, h.v[1], val.v))))

\* the string body shared by deserialize_str and types 6 | 7 of
\* deserialize_any_value; the value is the buffer read
ReadString(de) ==
    IF de.current_type = None THEN Err(de)
    ELSE LET typ == de.current_type[1]
             d == [de EXCEPT !.current_type = None]
         IN  IF typ \notin {6, 7} THEN Err(d)
             ELSE Try(IF typ = 6 THEN read_u8(d) ELSE read_u32(d), LAMBDA l :
                  Try(read_exact(l.de, AsCount(ZeroExtend(l.v, 8))), LAMBDA buf :
                     IF ~from_utf8_ok(buf.v) THEN Err(buf.de) ELSE buf))

\* the byte block body shared by deserialize_bytes and type 13 of
\* deserialize_any_value; the value is the buffer read.  `vec![0u8; len]`
\* panics when `len as usize` exceeds isize::MAX (a negative i64)
ReadBytes(de) ==
    IF de.current_type = None THEN Err(de)
    ELSE LET typ == de.current_type[1]
             d == [de EXCEPT !.current_type = None]
         IN  IF typ # 13 THEN Err(d)
             ELSE Try(next_header(d), LAMBDA h :
                    IF h.v[2] # 0 THEN Err(h.de)
                    ELSE Try(get_raw_number(h.de), LAMBDA l :
                            IF AsCount(l.v) = -1 THEN Panic(l.de)
                            ELSE read_exact(l.de, AsCount(l.v))))

\* `Ok(Value::X(r?))`
Node(r, kind) == Try(r, LAMBDA x : Ok(x.de, [k |-> kind, b |-> x.v]))

\* Vec::with_capacity(len) panics or aborts when `len as usize` cannot be
\* allocated (a negative i64, or one above 2^31 - 1)
deserialize_any_value(de, typ) ==
    LET d == [de EXCEPT !.current_type = Some(typ)]
    IN  CASE typ = 0 -> Node(read_u8(d), "Byte")
          [] typ = 1 -> Node(read_u16(d), "Int16")
          [] typ = 2 -> Node(read_u32(d), "Int32")
          [] typ = 3 -> Node(AsI64(read_u32(d)), "Int64")
          [] typ = 4 -> Node(read_f32(d), "Float")
          [] typ = 5 -> Node(read_f64(d), "Double")
          [] typ \in {6, 7} ->
                Try(ReadString(d), LAMBDA r : Ok(r.de, [k |-> "String", s |-> r.v]))
          [] typ = 8 ->
                Try(get_raw_number(d), LAMBDA l :
                    IF AsCount(l.v) < 0 THEN Panic(l.de)
                    ELSE AnyMapLoop(l.de, AsCount(l.v), <<>>))
          [] typ = 9 ->
                Try(get_raw_number(d), LAMBDA l :
                    IF AsCount(l.v) < 0 THEN Panic(l.de)
                    ELSE AnyListLoop(l.de, AsCount(l.v), <<>>))
          [] typ = 10 -> AnyStructLoop(d, BTreeMap_new)
          [] typ = 11 -> Err(d)
          [] typ = 12 -> Ok(d, [k |-> "Zero"])
          [] typ = 13 ->
                Try(ReadBytes(d), LAMBDA r : Ok(r.de, [k |-> "Bytes", s |-> r.v]))
          [] OTHER -> Err(d)

\* the loop of deserialize_all, root being the map built so far
RECURSIVE AllLoop(_, _)
AllLoop(de, root) ==
    Let(next_header(de), LAMBDA h :
        IF h.st # "ok" THEN Ok(h.de, root)
        ELSE IF h.v[2] = 11 THEN Ok(h.de, root)
        ELSE Try(deserialize_any_value(h.de, h.v[2]), LAMBDA val :
                AllLoop(val.de, BTreeMap_insert(root, h.v[1], val.v))))

deserialize_all(de) == AllLoop(de, BTreeMap_new)

\* lib.rs
from_slice_to_value(slice) == deserialize_all(Deserializer_new(slice))

(***************************************************************************)
(* Typed decoding: impl de::Deserializer for &mut Deserializer, driven by  *)
(* the Deserialize implementation and visitor of the target type:          *)
(*   [k |-> "int", ty |-> "i8".."u64"], [k |-> "bool"], [k |-> "f32"],     *)
(*   [k |-> "f64"], [k |-> "str"], [k |-> "bytes"],                        *)
(*   [k |-> "option", inner |-> type], [k |-> "seq", elem |-> type],       *)
(*   [k |-> "tuple", elems |-> <<type..>>],                                *)
(*   [k |-> "map", key |-> type, val |-> type],                            *)
(*   [k |-> "struct", fields |-> << [key |-> string, ty |-> type] .. >>],  *)
(*   [k |-> "ignored"]                        serde's IgnoredAny           *)
(***************************************************************************)
RECURSIVE Deserialize(_, _)

IntWidth(ty) ==
    CASE ty \in {"i8", "u8"} -> 1
      [] ty \in {"i16", "u16"} -> 2
      [] ty \in {"i32", "u32"} -> 4
      [] ty \in {"i64", "u64"} -> 8

\* deserialize_i8 .. deserialize_u64: visitor.visit_T(self.get_number()? as T)
deserialize_int(de, ty) ==
    Try(get_number(de), LAMBDA r :
        Ok(r.de, [k |-> "int", ty |-> ty, b |-> Truncate(r.v, IntWidth(ty))]))

deserialize_bool(de) ==
    Try(get_number(de), LAMBDA r :
        Ok(r.de, [k |-> "bool", v |-> Truncate(r.v, 4) # <<0, 0, 0, 0>>]))

\* a float is kept as its bit pattern; the value of `f64 as f32` and of
\* `f32 as f64` is kept as the bits it was converted from
deserialize_f32(de) ==
    IF de.current_type = None THEN Err(de)
    ELSE LET typ == de.current_type[1]
             d == [de EXCEPT !.current_type = None]
         IN  CASE typ = 4 -> Node(read_f32(d), "f32")
               [] typ = 5 -> Node(read_f64(d), "f32_from_f64")
               [] OTHER -> Err(d)

deserialize_f64(de) ==
    IF de.current_type = None THEN Err(de)
    ELSE LET typ == de.current_type[1]
             d == [de EXCEPT !.current_type = None]
         IN  CASE typ = 4 -> Node(read_f32(d), "f64_from_f32")
               [] typ = 5 -> Node(read_f64(d), "f64")
               [] OTHER -> Err(d)

deserialize_str(de) ==
    Try(ReadString(de), LAMBDA r : Ok(r.de, [k |-> "str", s |-> r.v]))

deserialize_string(de) == deserialize_str(de)

deserialize_bytes(de) ==
    Try(ReadBytes(de), LAMBDA r : Ok(r.de, [k |-> "bytes", s |-> r.v]))

deserialize_byte_buf(de) == deserialize_bytes(de)

\* visitor.visit_some(self)
deserialize_option(de, inner) ==
    Try(Deserialize(inner, de), LAMBDA r : Ok(r.de, [k |-> "some", v |-> r.v]))

deserialize_ignored_any(de) ==
    IF de.current_type = None THEN Panic(de)
    ELSE skip_type(de, de.current_type[1])

\* SeqAccessor::next_element_seed: the value is an Option; len < 0 stands
\* for a length no stream reaches
SeqAccessor_next_element_seed(de, len, current, ty) ==
    IF len >= 0 /\ current >= len THEN Ok(de, None)
    ELSE Try(next_header(de), LAMBDA h :
         Try(Deserialize(ty, [h.de EXCEPT !.current_type = Some(h.v[2])]), LAMBDA r :
            Ok(r.de, Some(r.v))))

\* the visitor of Vec<T>: `while let Some(value) = seq.next_element()?`
RECURSIVE VecVisitor(_, _, _, _, _)
VecVisitor(de, len, current, ty, acc) ==
    Try(SeqAccessor_next_element_seed(de, len, current, ty), LAMBDA e :
        IF e.v = None
        THEN Ok(e.de, [k |-> "seq", hint |-> Some(Len(acc)), ety |-> ty, items |-> acc])
        ELSE VecVisitor(e.de, len, current + 1, ty, Append(acc, e.v[1])))

\* the visitor of a tuple: one next_element per member, an error when the
\* sequence ends before the last one
RECURSIVE TupleVisitor(_, _, _, _, _)
TupleVisitor(de, len, current, tys, acc) ==
    IF current = Len(tys) THEN Ok(de, [k |-> "tuple", items |-> acc])
    ELSE Try(SeqAccessor_next_element_seed(de, len, current, tys[current + 1]),
             LAMBDA e :
                IF e.v = None THEN Err(e.de)
                ELSE TupleVisitor(e.de, len, current + 1, tys, Append(acc, e.v[1])))

deserialize_seq(de, ty) ==
    LET d == [de EXCEPT !.current_type = None]
    IN  IF de.current_type # Some(9) THEN Err(d)
        ELSE Try(get_raw_number(d), LAMBDA l :
                VecVisitor(l.de, AsCount(l.v), 0, ty, <<>>))

deserialize_tuple(de, tys) ==
    LET d == [de EXCEPT !.current_type = None]
    IN  IF de.current_type # Some(9) THEN Err(d)
        ELSE Try(get_raw_number(d), LAMBDA l :
                TupleVisitor(l.de, AsCount(l.v), 0, tys, <<>>))

MapAccessor_next_key_seed(de, len, current, ty) ==
    IF len >= 0 /\ current >= len THEN Ok(de, None)
    ELSE Try(next_header(de), LAMBDA h :
         Try(Deserialize(ty, [h.de EXCEPT !.current_type = Some(h.v[2])]), LAMBDA r :
            Ok(r.de, Some(r.v))))

MapAccessor_next_value_seed(de, ty) ==
    Try(next_header(de), LAMBDA h :
        Deserialize(ty, [h.de EXCEPT !.current_type = Some(h.v[2])]))

\* HashMap::insert on the entries in insertion order
HashMap_insert(entries, key, val) ==
    IF \E i \in 1..Len(entries) : entries[i][1] = key
    THEN [i \in 1..Len(entries) |->
            IF entries[i][1] = key THEN <<key, val>> ELSE entries[i]]
    ELSE Append(entries, <<key, val>>)

\* the visitor of HashMap<K, V>: `while let Some((k, v)) = map.next_entry()?`
RECURSIVE MapVisitor(_, _, _, _, _, _)
MapVisitor(de, len, current, kty, vty, acc) ==
    Try(MapAccessor_next_key_seed(de, len, current, kty), LAMBDA key :
        IF key.v = None
        THEN Ok(key.de, [k |-> "map", kty |-> kty, vty |-> vty, entries |-> acc])
        ELSE Try(MapAccessor_next_value_seed(key.de, vty), LAMBDA val :
                MapVisitor(val.de, len, current + 1, kty, vty,
                           HashMap_insert(acc, key.v[1], val.v))))

deserialize_map(de, kty, vty) ==
    LET d == [de EXCEPT !.current_type = None]
    IN  IF de.current_type = None THEN Err(de)
        ELSE IF de.current_type # Some(8) THEN Err(d)
        ELSE Try(get_raw_number(d), LAMBDA l :
                MapVisitor(l.de, AsCount(l.v), 0, kty, vty, <<>>))

\* a faulty next_key_seed that returns the error of a failed header read
\* (`self.de.next_header()?`) instead of ending the record
StructAccessor_next_key_seed_strict(de) ==
    Try(next_header(de), LAMBDA h :
        IF h.v[2] = 11 THEN Ok(h.de, None)
        ELSE Ok([h.de EXCEPT !.current_type = Some(h.v[2])], Some(to_string(h.v[1]))))

\* StructAccessor::next_key_seed: the value is the Option of the field name
\* that TagIdentifier hands to the visitor, tag.to_string()
StructAccessor_next_key_seed(de) ==
    Let(next_header(de), LAMBDA h :
        IF h.st # "ok" THEN Ok(h.de, None)
        ELSE IF h.v[2] = 11 THEN Ok(h.de, None)
        ELSE Ok([h.de EXCEPT !.current_type = Some(h.v[2])], Some(to_string(h.v[1]))))

StructAccessor_next_value_seed(de, ty) == Deserialize(ty, de)

\* the end of a derived visit_map: a field never seen is None when it is
\* an Option and a "missing field" error otherwise
StructBuild(de, ftys, got) ==
    IF \E i \in 1..Len(ftys) : got[i] = None /\ ftys[i].ty.k # "option"
    THEN Err(de)
    ELSE Ok(de, [k |-> "struct",
                 fields |-> [i \in 1..Len(ftys) |->
                    [key |-> ftys[i].key,
                     v |-> IF got[i] = None
                           THEN [k |-> "none", ty |-> ftys[i].ty.inner]
                           ELSE got[i][1]]]])

\* the visit_map of a derived struct visitor: a known field is decoded
\* (an error if it was seen before), an unknown one goes to IgnoredAny
RECURSIVE StructVisitor(_, _, _)
StructVisitor(de, ftys, got) ==
    Try(StructAccessor_next_key_seed(de), LAMBDA key :
        IF key.v = None THEN StructBuild(key.de, ftys, got)
        ELSE IF \E i \in 1..Len(ftys) : ftys[i].key = key.v[1]
        THEN LET i == CHOOSE j \in 1..Len(ftys) : ftys[j].key = key.v[1]
             IN  IF got[i] # None THEN Err(key.de)
                 ELSE Try(StructAccessor_next_value_seed(key.de, ftys[i].ty), LAMBDA r :
                         StructVisitor(r.de, ftys, [got EXCEPT ![i] = Some(r.v)]))
        ELSE Try(StructAccessor_next_value_seed(key.de, [k |-> "ignored"]), LAMBDA r :
                StructVisitor(r.de, ftys, got)))

deserialize_struct(de, ftys) ==
    LET d == [de EXCEPT !.current_type = None]
    IN  IF de.current_type = Some(10) \/ de.current_type = None
        THEN StructVisitor(d, ftys, [i \in 1..Len(ftys) |-> None])
        ELSE Err(d)

\* T::deserialize(deserializer)
Deserialize(ty, de) ==
    CASE ty.k = "int" -> deserialize_int(de, ty.ty)
      [] ty.k = "bool" -> deserialize_bool(de)
      [] ty.k = "f32" -> deserialize_f32(de)
      [] ty.k = "f64" -> deserialize_f64(de)
      [] ty.k = "str" -> deserialize_string(de)
      [] ty.k = "bytes" -> deserialize_byte_buf(de)
      [] ty.k = "option" -> deserialize_option(de, ty.inner)
      [] ty.k = "seq" -> deserialize_seq(de, ty.elem)
      [] ty.k = "tuple" -> deserialize_tuple(de, ty.elems)
      [] ty.k = "map" -> deserialize_map(de, ty.key, ty.val)
      [] ty.k = "struct" -> deserialize_struct(de, ty.fields)
      [] ty.k = "ignored" -> deserialize_ignored_any(de)

\* lib.rs
from_slice(ty, slice) == Deserialize(ty, Deserializer_new(slice))

\* the target type of an application value
RECURSIVE TypeOf(_)
TypeOf(v) ==
    CASE v.k = "int" -> [k |-> "int", ty |-> v.ty]
      [] v.k \in {"bool", "f32", "f64", "str", "bytes"} -> [k |-> v.k]
      [] v.k = "none" -> [k |-> "option", inner |-> v.ty]
      [] v.k = "some" -> [k |-> "option", inner |-> TypeOf(v.v)]
      [] v.k = "seq" -> [k |-> "seq", elem |-> v.ety]
      [] v.k = "tuple" ->
            [k |-> "tuple", elems |-> [i \in 1..Len(v.items) |-> TypeOf(v.items[i])]]
      [] v.k = "map" -> [k |-> "map", key |-> v.kty, val |-> v.vty]
      [] v.k = "struct" ->
            [k |-> "struct",
             fields |-> [i \in 1..Len(v.fields) |->
                            [key |-> v.fields[i].key, ty |-> TypeOf(v.fields[i].v)]]]

(***************************************************************************)
(* The values the model encodes and decodes.                               *)
(***************************************************************************)
IntV(ty, b) == [k |-> "int", ty |-> ty, b |-> b]
F32(b) == [k |-> "f32", b |-> b]
F64(b) == [k |-> "f64", b |-> b]
Str(s) == [k |-> "str", s |-> s]
Bytes(s) == [k |-> "bytes", s |-> s]
SomeV(v) == [k |-> "some", v |-> v]
NoneV(ty) == [k |-> "none", ty |-> ty]
\* a Vec<T>: its iterator knows its length
SeqV(ety, items) ==
    [k |-> "seq", hint |-> Some(Len(items)), ety |-> ety, items |-> items]
TupleV(items) == [k |-> "tuple", items |-> items]
MapV(kty, vty, entries) ==
    [k |-> "map", kty |-> kty, vty |-> vty, entries |-> entries]
StructV(fields) == [k |-> "struct", fields |-> fields]
Field(key, v) == [key |-> key, v |-> v]
IntT(ty) == [k |-> "int", ty |-> ty]
StrT == [k |-> "str"]

\* the bounds of the generated values
MaxStrLen == 1
MaxBlobLen == 4
MaxSeqLen == 2
MaxEntries == 1
MaxPayload == 9

\* all sequences over S of length at most n
RECURSIVE SeqsUpTo(_, _)
SeqsUpTo(S, n) ==
    IF n = 0 THEN {<<>>}
    ELSE LET P == SeqsUpTo(S, n - 1)
         IN  P \cup {Append(p, x) : p \in {q \in P : Len(q) = n - 1}, x \in S}

\* the byte patterns of the w-byte integers at the boundaries of every
\* width up to w: 0, 1, 127, 128 and 255 of one byte, then at each doubling
\* the sign and the zero extensions of the narrower ones and the largest
\* and the smallest signed value of the width
RECURSIVE IntSamples(_)
IntSamples(w) ==
    IF w = 1 THEN {<<0>>, <<1>>, <<127>>, <<128>>, <<255>>}
    ELSE LET N == IntSamples(w \div 2)
         IN  {SignExtend(x, w) : x \in N} \cup {ZeroExtend(x, w) : x \in N}
             \cup {<<127>> \o Rep(255, w - 1), <<128>> \o Rep(0, w - 1)}

SignedTypes == {"i8", "i16", "i32", "i64"}
UnsignedTypes == {"u8", "u16", "u32", "u64"}
IntTypes == SignedTypes \cup UnsignedTypes

IntValues == UNION {{IntV(ty, b) : b \in IntSamples(IntWidth(ty))} : ty \in IntTypes}

\* the i64 arguments of write_number: the boundaries and the values just
\* below -128, -32768 and -2^31
I64Samples ==
    IntSamples(8) \cup {BytesOf(-129, 8), BytesOf(-32769, 8),
                        <<255, 255, 255, 255, 127, 255, 255, 255>>}

\* strings: short ones, one of 255 bytes, one of 256 bytes, one non-ASCII
StrSamples ==
    {Str(s) : s \in SeqsUpTo({97}, MaxStrLen)}
    \cup {Str(Rep(120, 255)), Str(Rep(120, 256)), Str(<<195, 169>>)}

\* byte blocks: short ones and one whose length needs two bytes
BlobSamples ==
    {Bytes(s) : s \in SeqsUpTo({1, 255}, MaxBlobLen)} \cup {Bytes(Rep(7, 128))}

FloatSamples ==
    {F32(<<0, 0, 0, 0>>), F32(<<63, 128, 0, 0>>), F32(<<255, 192, 0, 0>>),
     F64(<<0, 0, 0, 0, 0, 0, 0, 0>>), F64(<<191, 240, 0, 0, 0, 0, 0, 1>>)}

Key(n) == to_string(n)

\* the records of test_struct in de.rs: Boox { "1": Option<u32>,
\* "2": Booox { "1": (String, u32), "3": HashMap<String, String> } }
U32Samples == {IntV("u32", b) : b \in {BytesOf(0, 4), BytesOf(123, 4), <<255, 255, 255, 255>>}}

BooxStrs ==
    {Str(s) : s \in SeqsUpTo({104}, MaxStrLen)} \cup {Str(<<104, 97, 104, 97, 104, 97>>)}

BooxPairs ==
    {<<Str(kk), Str(vv)>> : kk \in {<<49, 50, 51>>, <<107>>}, vv \in {<<>>, <<97, 115, 100>>}}

BooxMaps ==
    {MapV(StrT, StrT, es) :
        es \in {e \in SeqsUpTo(BooxPairs, MaxEntries) :
                  \A i, j \in 1..Len(e) : i # j => e[i][1] # e[j][1]}}

Booox(t, m) == StructV(<<Field(Key(1), t), Field(Key(3), m)>>)

Boox(o, inner) == StructV(<<Field(Key(1), o), Field(Key(2), inner)>>)

BooxValues ==
    {Boox(SomeV(o), Booox(TupleV(<<s, n>>), m)) :
        o \in U32Samples, s \in BooxStrs, n \in U32Samples, m \in BooxMaps}

\* the shapes of a field: scalars, sequences, maps, nested records
I64Values == {IntV("i64", b) : b \in I64Samples}

SeqSamples ==
    {SeqV(IntT("i64"), s) :
        s \in SeqsUpTo({IntV("i64", BytesOf(n, 8)) : n \in {0, -1, 300}}, MaxSeqLen)}
    \cup {SeqV(StrT, s) : s \in SeqsUpTo({Str(<<>>), Str(<<97>>)}, MaxSeqLen)}

MapSamples ==
    {MapV(StrT, IntT("i64"), es) :
        es \in {e \in SeqsUpTo({<<Str(kk), IntV("i64", BytesOf(n, 8))>> :
                                  kk \in {<<>>, <<107>>}, n \in {0, 70000}}, MaxEntries) :
                  \A i, j \in 1..Len(e) : i # j => e[i][1] # e[j][1]}}

Inner1 == StructV(<<Field(Key(0), IntV("i64", BytesOf(7, 8)))>>)

Inner2 == StructV(<<Field(Key(1), Str(<<97>>)), Field(Key(200), Bytes(<<1, 2, 3, 4>>))>>)

RecordSamples ==
    {StructV(<<>>), Inner1, Inner2,
     StructV(<<Field(Key(1), Inner1)>>),
     StructV(<<Field(Key(1), Inner1), Field(Key(2), IntV("u8", <<9>>))>>),
     StructV(<<Field(Key(1), NoneV(IntT("u32"))), Field(Key(14), SomeV(Inner2))>>),
     StructV(<<Field(Key(15), SeqV(TypeOf(Inner1), <<Inner1, Inner1>>))>>),
     StructV(<<Field(Key(1), MapV(StrT, TypeOf(Inner2), <<<<Str(<<107>>), Inner2>>>>))>>)}

NestedSamples ==
    {SeqV(TypeOf(Inner1), <<Inner1, Inner1>>),
     SeqV(TypeOf(Inner2), <<Inner2>>),
     SeqV([k |-> "bytes"], <<Bytes(<<>>), Bytes(<<5>>)>>),
     TupleV(<<Str(<<97>>), IntV("u32", BytesOf(0, 4))>>),
     TupleV(<<Inner1, F32(<<63, 128, 0, 0>>), Bytes(<<1>>)>>),
     MapV(IntT("u8"), TypeOf(Inner1), <<<<IntV("u8", <<3>>), Inner1>>>>),
     MapV(StrT, [k |-> "seq", elem |-> IntT("u16")],
          <<<<Str(<<118, 49>>), SeqV(IntT("u16"), <<IntV("u16", <<0, 12>>), IntV("u16", <<0, 34>>)>>)>>>>)}

Shapes ==
    I64Values \cup FloatSamples \cup StrSamples \cup BlobSamples
    \cup SeqSamples \cup MapSamples \cup RecordSamples \cup NestedSamples

\* records with fields 1, 2 and 3, field 2 of every shape
EndFields1 == {IntV("u32", BytesOf(123, 4)), Str(<<97>>)}
EndFields3 == {IntV("i8", <<255>>), IntV("u16", <<255, 255>>)}

Record123 ==
    {StructV(<<Field(Key(1), a), Field(Key(2), x), Field(Key(3), c)>>) :
        a \in EndFields1, x \in Shapes, c \in EndFields3}

\* records with one integer field, of every integer type
IntRecords == {StructV(<<Field(Key(1), iv)>>) : iv \in IntValues}

\* records with one byte block field, under a short and an extended tag
BlobRecords == {StructV(<<Field(Key(t), b)>>) : t \in {3, 200}, b \in BlobSamples}

\* records whose fields are not in tag order
OtherRecords ==
    {StructV(<<Field(Key(3), IntV("u8", <<1>>)), Field(Key(1), Str(<<97>>)),
               Field(Key(255), IntV("i64", BytesOf(0, 8)))>>),
     StructV(<<Field(Key(2), Inner2), Field(Key(0), IntV("u8", <<5>>))>>),
     StructV(<<Field(Key(1), Inner1), Field(Key(2), IntV("u8", <<9>>))>>),
     StructV(<<>>)}

\* values that are not records, as test_literal in ser.rs encodes them
TopLevelValues ==
    {SeqV(IntT("i32"), [i \in 1..5 |-> IntV("i32", BytesOf(i, 4))]),
     SeqV(IntT("i32"), <<>>),
     MapV(StrT, [k |-> "seq", elem |-> IntT("i32")],
          <<<<Str(<<118, 49>>),
              SeqV(IntT("i32"), <<IntV("i32", BytesOf(12, 4)), IntV("i32", BytesOf(34, 4))>>)>>>>),
     IntV("i32", BytesOf(5, 4)), IntV("u8", <<0>>), Str(<<97>>),
     TupleV(<<Str(<<97>>), IntV("u32", BytesOf(1, 4))>>)}

\* sequences and maps of records, encoded on their own
TopLevelContainers ==
    {SeqV(TypeOf(Inner1), <<Inner1>>),
     SeqV(TypeOf(Inner1), <<Inner1, Inner1>>),
     SeqV(TypeOf(Inner2), <<Inner2>>),
     MapV(IntT("u8"), TypeOf(Inner1), <<<<IntV("u8", <<3>>), Inner1>>>>),
     MapV(TypeOf(Inner1), StrT, <<<<Inner1, Str(<<97>>)>>>>)}

\* length of the long sequence: past tag 14, where headers take two bytes
LongSeqLen == 20

\* sequences and tuples: flat ones, a long one, and ones that hold sequences
I32(n) == IntV("i32", BytesOf(n, 4))

I32Seq(ns) == SeqV(IntT("i32"), [i \in 1..Len(ns) |-> I32(ns[i])])

FlatSequences ==
    {I32Seq(<<>>), I32Seq(<<1, 2, 3>>), TupleV(<<Str(<<97>>), I32(7)>>),
     SeqV(IntT("u8"), [i \in 1..LongSeqLen |-> IntV("u8", <<i>>)]),
     StructV(<<Field(Key(4), I32Seq(<<1, 2>>)), Field(Key(5), I32Seq(<<3>>))>>)}

NestedSequences ==
    {SeqV(TypeOf(I32Seq(<<>>)), <<I32Seq(<<1, 2>>), I32Seq(<<3>>)>>),
     SeqV(TypeOf(I32Seq(<<>>)), <<I32Seq(<<>>), I32Seq(<<1>>)>>),
     SeqV(TypeOf(I32Seq(<<>>)), <<I32Seq(<<5>>), I32Seq(<<6>>), I32Seq(<<7>>)>>),
     TupleV(<<I32Seq(<<1, 2>>), IntV("u8", <<5>>)>>),
     TupleV(<<TupleV(<<I32(1), I32(2), I32(3)>>), Str(<<97>>), Str(<<98>>)>>),
     StructV(<<Field(Key(1), SeqV(TypeOf(I32Seq(<<>>)), <<I32Seq(<<1, 2>>), I32Seq(<<3>>)>>))>>)}

\* a sequence collected from an iterator of unknown length
UnsizedSeq(ety, items) ==
    [k |-> "seq", hint |-> None, ety |-> ety, items |-> items]

MapContainers ==
    {MapV(StrT, IntT("u8"), <<>>),
     MapV(StrT, IntT("u8"), <<<<Str(<<97>>), IntV("u8", <<1>>)>>>>),
     MapV(StrT, IntT("u8"), <<<<Str(<<97>>), IntV("u8", <<1>>)>>, <<Str(<<98>>), IntV("u8", <<0>>)>>>>)}

\* the maps of MapContainers written by serialize_key and serialize_value
KeyValueMaps == {[k |-> "map_kv", entries |-> m.entries] : m \in MapContainers}

OptU8 == [k |-> "option", inner |-> IntT("u8")]

\* sequences and maps with an absent optional as an element or a value
AbsentContainers ==
    {SeqV(OptU8, <<SomeV(IntV("u8", <<1>>)), NoneV(IntT("u8")), SomeV(IntV("u8", <<3>>))>>),
     SeqV(OptU8, <<NoneV(IntT("u8"))>>),
     MapV(StrT, OptU8, <<<<Str(<<97>>), NoneV(IntT("u8"))>>>>),
     MapV(StrT, OptU8, <<<<Str(<<97>>), SomeV(IntV("u8", <<1>>))>>, <<Str(<<98>>), NoneV(IntT("u8"))>>>>)}

UnsizedContainers ==
    {UnsizedSeq(IntT("i32"), <<>>), UnsizedSeq(IntT("i32"), <<I32(1), I32(2)>>),
     UnsizedSeq(StrT, <<Str(<<97>>)>>)}

\* values that are only encoded
EncodeOnly ==
    FlatSequences \cup NestedSequences \cup MapContainers \cup KeyValueMaps
        \cup AbsentContainers \cup UnsizedContainers

RecordValues == IntRecords \cup BooxValues \cup Record123 \cup BlobRecords \cup OtherRecords

Values == RecordValues \cup TopLevelValues \cup TopLevelContainers

\* the target types a value is decoded into: its own type and, for a record
\* with fields 1, 2 and 3, the record type that knows only fields 1 and 3
Without2(ty) ==
    [k |-> "struct", fields |-> SelectSeq(ty.fields, LAMBDA f : f.key # Key(2))]

Targets(v) ==
    {TypeOf(v)} \cup (IF v \in Record123 THEN {Without2(TypeOf(v))} ELSE {})

\* field names: the decimal form of every tag, names that parse::<u8>()
\* accepts in another form, and names it rejects
FieldKeys ==
    {Key(n) : n \in 0..255}
    \cup {<<"+", "5">>, <<"0", "0", "7">>, <<"0", "2", "5", "5">>}
    \cup {<<>>, <<"2", "5", "6">>, <<"-", "1">>, <<"a", "b", "c">>, <<"9", "9", "9">>,
          <<"1", "a">>, <<"-">>, <<"+">>, <<"-", "0">>, <<" ", "1">>, <<"1", ".", "0">>,
          <<"3", "0", "0", "0">>}

\* the values of the field of a single serialize_field call
FieldValues == {IntV("u8", <<5>>), Str(<<97>>), Bytes(<<1, 2>>), Inner1}

\* the Serializer a field is written to: inside the outermost record with
\* nothing or with one field written, and inside a nested record
FieldSerializers ==
    {serialize_struct(Serializer_new),
     SerializeStruct_serialize_field(serialize_struct(Serializer_new), Key(1),
                                     IntV("u8", <<9>>)),
     serialize_struct([serialize_struct(Serializer_new) EXCEPT !.next_tag = Some(4)])}

\* struct Inner { "0": Option<i64> } and struct Outer { "1": Inner }
InnerT ==
    [k |-> "struct", fields |-> <<[key |-> Key(0), ty |-> [k |-> "option", inner |-> IntT("i64")]]>>]

OuterT == [k |-> "struct", fields |-> <<[key |-> Key(1), ty |-> InnerT]>>]

\* the target types a raw stream is decoded into
DecodeTypes ==
    {IntT("i64"), IntT("u8"), [k |-> "bool"], [k |-> "f32"], [k |-> "f64"], StrT,
     [k |-> "bytes"], [k |-> "option", inner |-> IntT("u32")],
     [k |-> "seq", elem |-> IntT("u8")],
     [k |-> "tuple", elems |-> <<StrT, IntT("u32")>>],
     [k |-> "map", key |-> StrT, val |-> StrT],
     [k |-> "struct", fields |-> <<[key |-> Key(1), ty |-> [k |-> "option", inner |-> IntT("u8")]]>>],
     [k |-> "ignored"], InnerT, OuterT}

\* raw streams: one header of every type code 0..15 and the bytes after it
PayloadBytes == <<129, 2, 3, 4, 5, 6, 7, 8, 9, 10, 11, 12>>

RawStreams ==
    {[tag |-> t, typ |-> y, payload |-> SubSeq(PayloadBytes, 1, n)] :
        t \in {0, 200}, y \in 0..15, n \in 0..MaxPayload}

\* streams of a record under tag 1: the type-10 header and then a body
\* that the type-11 sentinel closes, or a body that ends before it: at the
\* end of the stream, inside a header of two bytes, or inside a payload
ClosedBodies == {<<11>>, <<0, 7, 11>>, <<0, 7, 16, 8, 11>>}

UnclosedBodies == {<<>>, <<0, 7>>, <<0, 7, 16, 8>>, <<0, 7, 240>>, <<240>>, <<0>>, <<1, 7>>}

RecordStreams ==
    {[tag |-> 1, typ |-> 10, payload |-> b] : b \in ClosedBodies \cup UnclosedBodies}

\* the headers pushed back and the number of push-backs in a row
MaxPushBacks == 2

PushedHeaders == {<<3, 6>>, <<200, 0>>}

StreamOf(x) == write_head(Serializer_new, x.tag, x.typ).writer \o x.payload

(***************************************************************************)
(* The state machine: one Serializer, one Deserializer, and the calls made *)
(* on them.  pc is the sequence of the names of the calls made so far,     *)
(* input the argument of the first one, target the type decoded into and   *)
(* ret the result of the last call on the Deserializer.                    *)
(***************************************************************************)
VARIABLES pc, input, target, ser, de, ret

vars == <<pc, input, target, ser, de, ret>>

Last(s) == s[Len(s)]

Result(r) == [st |-> r.st, v |-> r.v]

Init ==
    /\ pc = <<>>
    /\ input = Unit
    /\ target = Unit
    /\ ser = Serializer_new
    /\ de = Deserializer_new(<<>>)
    /\ ret = [st |-> "ok", v |-> Unit]

\* lib.rs to_vec(&value)
ToVec ==
    /\ pc = <<>>
    /\ \E v \in Values \cup EncodeOnly :
          /\ input' = v
          /\ ser' = to_vec(v)
    /\ pc' = <<"to_vec">>
    /\ UNCHANGED <<target, de, ret>>

\* lib.rs from_slice::<T>(&serialized)
FromSlice ==
    /\ pc = <<"to_vec">>
    /\ input \in Values
    /\ ser.st = "ok"
    /\ \E ty \in Targets(input) :
          \E r \in {from_slice(ty, ser.writer)} :
              /\ target' = ty
              /\ de' = r.de
              /\ ret' = Result(r)
    /\ pc' = Append(pc, "from_slice")
    /\ UNCHANGED <<input, ser>>

\* lib.rs from_slice_to_value(&serialized)
FromSliceToValue ==
    /\ pc = <<"to_vec">>
    /\ input \in Values
    /\ ser.st = "ok"
    /\ \E r \in {from_slice_to_value(ser.writer)} :
          /\ de' = r.de
          /\ ret' = Result(r)
    /\ pc' = Append(pc, "from_slice_to_value")
    /\ UNCHANGED <<input, target, ser>>

\* write_head(tag, typ) on a new Serializer
WriteHead ==
    /\ pc = <<>>
    /\ \E tag \in 0..255, typ \in 0..13 :
          /\ input' = <<tag, typ>>
          /\ ser' = write_head(ser, tag, typ)
    /\ pc' = <<"write_head">>
    /\ UNCHANGED <<target, de, ret>>

\* write_number(v) on a new Serializer, with and without a pending tag
WriteNumber ==
    /\ pc = <<>>
    /\ \E t \in {None, Some(5), Some(200)}, v \in I64Samples :
          /\ input' = [tag |-> t, v |-> v]
          /\ ser' = write_number([ser EXCEPT !.next_tag = t], v)
    /\ pc' = <<"write_number">>
    /\ UNCHANGED <<target, de, ret>>

\* SerializeStruct::serialize_field(key, value) inside a record
SerializeField ==
    /\ pc = <<>>
    /\ \E s \in FieldSerializers, key \in FieldKeys, v \in FieldValues :
          /\ input' = [before |-> s, key |-> key, v |-> v]
          /\ ser' = SerializeStruct_serialize_field(s, key, v)
    /\ pc' = <<"serialize_field">>
    /\ UNCHANGED <<target, de, ret>>

\* Deserializer::new over the bytes written, or over a raw stream
New ==
    /\ \/ /\ pc \in {<<"write_head">>, <<"write_number">>}
          /\ de' = Deserializer_new(ser.writer)
          /\ UNCHANGED input
       \/ /\ pc = <<>>
          /\ \E x \in RawStreams \cup RecordStreams :
                /\ input' = x
                /\ de' = Deserializer_new(StreamOf(x))
    /\ pc' = Append(pc, "new")
    /\ UNCHANGED <<target, ser, ret>>

\* peek_header(tag, typ) on a raw stream: of a header of PushedHeaders or
\* of the header just read; target keeps the header pushed back and the
\* part of the slice not read at that time
PeekHeader ==
    /\ pc # <<>> /\ pc[1] = "new"
    /\ \/ Last(pc) \in {"new", "peek_header"}
       \/ pc = <<"new", "next_header">> /\ ret.st = "ok"
    /\ Cardinality({i \in 1..Len(pc) : pc[i] = "peek_header"}) < MaxPushBacks
    /\ \E h \in PushedHeaders \cup (IF Last(pc) = "next_header" THEN {ret.v} ELSE {}) :
          /\ de' = peek_header(de, h[1], h[2])
          /\ target' = [pushed |-> h, at |-> de.reader]
    /\ pc' = Append(pc, "peek_header")
    /\ UNCHANGED <<input, ser, ret>>

\* next_header as the first call, after a push-back, and once more after
\* the call that returned the header pushed back
NextHeader ==
    /\ pc # <<>>
    /\ \/ Last(pc) \in {"new", "peek_header"}
       \/ /\ Len(pc) >= 2
          /\ Last(pc) = "next_header"
          /\ pc[Len(pc) - 1] = "peek_header"
    /\ \E r \in {next_header(de)} :
          /\ de' = r.de
          /\ ret' = Result(r)
    /\ pc' = Append(pc, "next_header")
    /\ UNCHANGED <<input, target, ser>>

GetRawNumber ==
    /\ pc # <<>> /\ Last(pc) = "new"
    /\ \E r \in {get_raw_number(de)} :
          /\ de' = r.de
          /\ ret' = Result(r)
    /\ pc' = Append(pc, "get_raw_number")
    /\ UNCHANGED <<input, target, ser>>

\* get_number after a header was read and its type code made the current
\* type, as the accessors do before a typed read (de.rs 375, 706, 727, 737)
GetNumber ==
    /\ pc # <<>> /\ Last(pc) = "next_header" /\ ret.st = "ok"
    /\ \E r \in {get_number([de EXCEPT !.current_type = Some(ret.v[2])])} :
          /\ de' = r.de
          /\ ret' = Result(r)
    /\ pc' = Append(pc, "get_number")
    /\ UNCHANGED <<input, target, ser>>

\* skip_type(typ) after a header (tag, typ) was read from a raw stream
SkipType ==
    /\ pc = <<"new", "next_header">> /\ ret.st = "ok"
    /\ \E r \in {skip_type(de, ret.v[2])} :
          /\ de' = r.de
          /\ ret' = Result(r)
    /\ pc' = Append(pc, "skip_type")
    /\ UNCHANGED <<input, target, ser>>

\* deserialize_any_value(typ) after a header (tag, typ) was read, as
\* deserialize_all calls it (de.rs 558-563)
DeserializeAnyValue ==
    /\ pc \in {<<"new", "next_header">>, <<"write_number", "new", "next_header">>}
    /\ ret.st = "ok"
    /\ \E r \in {deserialize_any_value(de, ret.v[2])} :
          /\ de' = r.de
          /\ ret' = Result(r)
    /\ pc' = Append(pc, "deserialize_any_value")
    /\ UNCHANGED <<input, target, ser>>

\* T::deserialize(&mut deserializer) on a raw stream: as the first call on
\* a new Deserializer, as from_slice makes it (lib.rs 38-39), or after a
\* header was read and its type code made the current type, as the
\* accessors do (de.rs 375, 706, 727, 737)
DeserializeValue ==
    /\ \/ pc = <<"new">>
       \/ pc = <<"new", "next_header">> /\ ret.st = "ok"
    /\ \E ty \in DecodeTypes :
          \E r \in {Deserialize(ty, IF Last(pc) = "new" THEN de
                                   ELSE [de EXCEPT !.current_type = Some(ret.v[2])])} :
              /\ target' = ty
              /\ de' = r.de
              /\ ret' = Result(r)
    /\ pc' = Append(pc, "deserialize")
    /\ UNCHANGED <<input, ser>>

Next ==
    \/ ToVec
    \/ FromSlice
    \/ FromSliceToValue
    \/ WriteHead
    \/ WriteNumber
    \/ SerializeField
    \/ New
    \/ PeekHeader
    \/ NextHeader
    \/ GetRawNumber
    \/ GetNumber
    \/ SkipType
    \/ DeserializeAnyValue
    \/ DeserializeValue

Spec == Init /\ [][Next]_vars

(***************************************************************************)
(* The properties checked.                                                 *)
(***************************************************************************)
RoundTrips == pc = <<"to_vec", "from_slice">> /\ target = TypeOf(input)

\* C1: every integer of every integer type (i8 .. u64), encoded as the
\* field of a record and decoded into a field of the same type, comes back
\* as the value encoded.
C1_IntegerFieldRoundTrip ==
    (RoundTrips /\ input \in IntRecords) => (ret.st = "ok" /\ ret.v = input)

\* C2: a value that is not a record (a sequence, a map, a tuple, a single
\* integer or string), encoded on its own by to_vec, is decoded by
\* from_slice with the same target type into an equal value.
C2_TopLevelRoundTrip ==
    (RoundTrips /\ input \in TopLevelValues) => (ret.st = "ok" /\ ret.v = input)

\* C3: a record Boox { "1": Some(u32), "2": Booox { "1": (String, u32),
\* "3": HashMap<String, String> } } round-trips: from_slice(to_vec(v)) is
\* Ok(v); the stream ends with the type-11 sentinel of the nested record
\* and the outer record ends where the stream does, all of it read.
C3_BooxRoundTrip ==
    (RoundTrips /\ input \in BooxValues) =>
        /\ ret.st = "ok"
        /\ ret.v = input
        /\ Last(ser.writer) = 11
        /\ de.reader = <<>>

C3_Witness ==
    /\ RoundTrips
    /\ input \in BooxValues
    /\ input.fields[2].v.fields[2].v.entries # <<>>
    /\ input.fields[1].v.v.b = <<255, 255, 255, 255>>
    /\ ret.st = "ok"

\* the bytes of a header as the format defines them
HeaderBytes(tag, typ) ==
    IF tag < 15 THEN <<tag * 16 + typ>> ELSE <<240 + typ, tag>>

\* v is the sign extension of its low w bytes: v is in the range of a
\* signed integer of w bytes
FitsIn(v, w) == SignExtend(Low(v, w), 8) = v

\* the narrowest of the widths 1, 2, 4 and 8 that holds v
NarrowestWidth(v) == CHOOSE w \in {1, 2, 4, 8} : FitsIn(v, w) /\ \A u \in {1, 2, 4} : u < w => ~FitsIn(v, u)

TypeOfWidth(w) == CASE w = 1 -> 0 [] w = 2 -> 1 [] w = 4 -> 2 [] w = 8 -> 3

\* C4: write_number(v) writes a header of type 12 and no payload for 0, and
\* otherwise the header of the narrowest of the types 0, 1, 2, 3 (1, 2, 4,
\* 8 bytes) that holds v, followed by the low bytes of v, big-endian, under
\* the pending tag (0 without one); 127 is written as type 0, 128 as type
\* 1, 32768 as type 2 and 2147483648 as type 3.
C4_NarrowestWidth ==
    pc = <<"write_number">> =>
        LET tag == IF input.tag = None THEN 0 ELSE input.tag[1]
            v == input.v
            w == NarrowestWidth(v)
        IN  /\ ser.st = "ok"
            /\ ser.next_tag = None
            /\ v = Rep(0, 8) => ser.writer = HeaderBytes(tag, 12)
            /\ v # Rep(0, 8) => ser.writer = HeaderBytes(tag, TypeOfWidth(w)) \o Low(v, w)
            /\ v = BytesOf(127, 8) => ser.writer = HeaderBytes(tag, 0) \o <<127>>
            /\ v = BytesOf(128, 8) => ser.writer = HeaderBytes(tag, 1) \o <<0, 128>>
            /\ v = BytesOf(32768, 8) => ser.writer = HeaderBytes(tag, 2) \o <<0, 0, 128, 0>>
            /\ v = <<0, 0, 0, 0, 128, 0, 0, 0>> =>
                  ser.writer = HeaderBytes(tag, 3) \o <<0, 0, 0, 0, 128, 0, 0, 0>>

C4_Witness ==
    /\ pc = <<"write_number">>
    /\ input.v = <<0, 0, 0, 0, 128, 0, 0, 0>>
    /\ input.tag = Some(200)
    /\ Len(ser.writer) = 10

\* C5: for every tag in 0..255 and type code in 0..13, write_head writes
\* the byte (tag << 4) | type when tag < 15 and the bytes 0xF0 | type, tag
\* otherwise; next_header on these bytes returns (tag, type) and reads all
\* of them, and reads no byte of what follows a header.  Tag 200 is
\* written in two bytes, the first with high nibble 15, and tag 14 in one
\* byte with high nibble 14.
C5_HeaderRoundTrip ==
    /\ pc = <<"write_head">> =>
          /\ ser.writer = HeaderBytes(input[1], input[2])
          /\ input[1] = 200 =>
                Len(ser.writer) = 2 /\ ser.writer[1] \div 16 = 15 /\ ser.writer[2] = 200
          /\ input[1] = 14 => Len(ser.writer) = 1 /\ ser.writer[1] \div 16 = 14
    /\ pc = <<"write_head", "new", "next_header">> =>
          ret = [st |-> "ok", v |-> input] /\ de.reader = <<>>
    /\ (pc = <<"new", "next_header">> /\ input.typ <= 13) =>
          ret = [st |-> "ok", v |-> <<input.tag, input.typ>>] /\ de.reader = input.payload

C5_Witness ==
    /\ pc = <<"write_head", "new", "next_header">>
    /\ input = <<200, 13>>
    /\ ser.writer = <<253, 200>>
    /\ ret.v = <<200, 13>>

\* the bytes to_vec writes for the record that holds only the fields of
\* input from the i-th on
FieldsFrom(i) == to_vec(StructV(SubSeq(input.fields, i, Len(input.fields)))).writer

TagOf(f) == parse_u8(f.key)[1]

\* the Generic Value Tree node of an application value: an integer is the
\* node of the type code it is written with
RECURSIVE NodeOf(_)
NodeOf(v) ==
    CASE v.k = "int" ->
            LET x == IF v.ty \in SignedTypes THEN SignExtend(v.b, 8) ELSE ZeroExtend(v.b, 8)
                w == NarrowestWidth(x)
            IN  IF x = Rep(0, 8) THEN [k |-> "Zero"]
                ELSE [k |-> CASE w = 1 -> "Byte" [] w = 2 -> "Int16"
                              [] w = 4 -> "Int32" [] w = 8 -> "Int64",
                      b |-> IF w = 8 THEN x ELSE Low(x, w)]
      [] v.k = "f32" -> [k |-> "Float", b |-> v.b]
      [] v.k = "f64" -> [k |-> "Double", b |-> v.b]
      [] v.k = "str" -> [k |-> "String", s |-> v.s]
      [] v.k = "bytes" -> [k |-> "Bytes", s |-> v.s]
      [] v.k = "some" -> NodeOf(v.v)
      [] v.k \in {"seq", "tuple"} ->
            [k |-> "List", items |-> [i \in 1..Len(v.items) |-> NodeOf(v.items[i])]]
      [] v.k = "map" ->
            [k |-> "Map",
             entries |-> [i \in 1..Len(v.entries) |->
                            <<NodeOf(v.entries[i][1]), NodeOf(v.entries[i][2])>>]]
      [] v.k = "struct" ->
            LET present == {i \in 1..Len(v.fields) : v.fields[i].v.k # "none"}
            IN  [k |-> "Struct",
                 fields |-> [t \in {TagOf(v.fields[i]) : i \in present} |->
                    NodeOf(v.fields[CHOOSE i \in present : TagOf(v.fields[i]) = t].v)]]

\* C7: for the bytes to_vec writes for a record, with fields of any shape
\* and in any order, deserialize_all is Ok of the mapping from the tags of
\* the fields written to the Generic Value Tree nodes of their values.
C7_DeserializeAll ==
    (pc = <<"to_vec", "from_slice_to_value">> /\ input \in RecordValues) =>
        /\ ret.st = "ok"
        /\ ret.v = NodeOf(input).fields

\* the bytes of the fields of a record at a nesting depth: a field that is
\* a record is a type-10 header, the bytes of its fields and the byte 0x0B;
\* any other field is what its value serializes to under the field's tag
RECURSIVE RecordBody(_, _)
RecordBody(fields, depth) ==
    IF fields = <<>> THEN <<>>
    ELSE LET f == fields[1]
             bytes == IF f.v.k = "struct"
                      THEN HeaderBytes(TagOf(f), 10) \o RecordBody(f.v.fields, depth + 1)
                           \o <<11>>
                      ELSE Serialize(f.v, [Serializer_new EXCEPT
                                !.next_tag = Some(TagOf(f)), !.depth = depth]).writer
         IN  bytes \o RecordBody(Tail(fields), depth)

\* C8: a record that is a field of another record is written as the
\* header (field tag, type 10), its fields and the byte 0x0B; the outermost
\* record is written as its fields only, with no type-10 header before
\* them and no 0x0B byte after them.
C8_RecordFraming ==
    (pc = <<"to_vec">> /\ input \in RecordValues) =>
        /\ ser.st = "ok"
        /\ ser.writer = RecordBody(input.fields, 1)
        /\ input = StructV(<<Field(Key(1), Inner1), Field(Key(2), IntV("u8", <<9>>))>>) =>
              ser.writer = <<26, 0, 7, 11, 32, 9>>
        /\ input = StructV(<<>>) => ser.writer = <<>>

C8_Witness ==
    /\ pc = <<"to_vec">>
    /\ input = StructV(<<Field(Key(1), Inner1), Field(Key(2), IntV("u8", <<9>>))>>)
    /\ ser.writer = <<26, 0, 7, 11, 32, 9>>

\* the bytes write_number writes for a length n under tag 0
LengthBytes(n) ==
    IF n = 0 THEN HeaderBytes(0, 12)
    ELSE LET w == NarrowestWidth(BytesOf(n, 8))
         IN  HeaderBytes(0, TypeOfWidth(w)) \o BytesOf(n, w)

\* C9: a byte block of n bytes under tag t is written as the header
\* (t, type 13), the marker header (tag 0, type 0), the length n as
\* write_number writes it under tag 0 (type 12 for n = 0) and the n bytes;
\* after the type-13 header of a block of 4 bytes come 0x00, 0x00, 0x04
\* and the 4 bytes; deserialize_bytes returns the n bytes.
C9_ByteBlock ==
    /\ (pc = <<"to_vec">> /\ input \in BlobRecords) =>
          LET f == input.fields[1]
              n == Len(f.v.s)
              body == Drop(ser.writer, Len(HeaderBytes(TagOf(f), 13)))
          IN  /\ ser.st = "ok"
              /\ ser.writer = HeaderBytes(TagOf(f), 13) \o HeaderBytes(0, 0)
                                \o LengthBytes(n) \o f.v.s
              /\ n = 0 => body = <<0, 12>>
              /\ n = 4 => body = <<0, 0, 4>> \o f.v.s
    /\ (RoundTrips /\ input \in BlobRecords) =>
          /\ ret.st = "ok"
          /\ ret.v = input
          /\ de.reader = <<>>

C9_Witness ==
    /\ RoundTrips
    /\ input = StructV(<<Field(Key(200), Bytes(<<1, 255, 255, 1>>))>>)
    /\ ser.writer = <<253, 200, 0, 0, 4, 1, 255, 255, 1>>
    /\ ret.st = "ok"

NumberTypes == {0, 1, 2, 3, 12}

\* C10: get_raw_number, after the header it reads, and get_number, on the
\* current type, are an Err that leaves every byte after the header unread
\* for a type code outside {0, 1, 2, 3, 12}, and Ok(0) that leaves every
\* byte after the header unread for type code 12.
C10_NumberTypes ==
    /\ pc = <<"new", "get_raw_number">> =>
          /\ input.typ \notin NumberTypes => ret.st = "err" /\ de.reader = input.payload
          /\ input.typ = 12 =>
                ret = [st |-> "ok", v |-> BytesOf(0, 8)] /\ de.reader = input.payload
    /\ pc = <<"new", "next_header", "get_number">> =>
          /\ input.typ \notin NumberTypes => ret.st = "err" /\ de.reader = input.payload
          /\ input.typ = 12 =>
                ret = [st |-> "ok", v |-> BytesOf(0, 8)] /\ de.reader = input.payload
          /\ de.current_type = None
    /\ pc = <<"write_head", "new", "get_raw_number">> =>
          /\ input[2] \notin NumberTypes => ret.st = "err"
          /\ input[2] = 12 => ret = [st |-> "ok", v |-> BytesOf(0, 8)]

C10_Witness ==
    /\ pc = <<"new", "next_header", "get_number">>
    /\ input.typ = 13
    /\ Len(input.payload) = MaxPayload
    /\ ret.st = "err"
    /\ de.reader = input.payload

RECURSIVE StripZeros(_)
StripZeros(cs) ==
    IF Len(cs) > 1 /\ cs[1] = "0" THEN StripZeros(Tail(cs)) ELSE cs

\* the digits of a field name, after an optional "+"
DigitsOf(key) == IF key # <<>> /\ key[1] = "+" THEN Tail(key) ELSE key

\* key is a decimal form of an integer in 0..255
IsDecimalTag(key) ==
    /\ DigitsOf(key) # <<>>
    /\ \A i \in 1..Len(DigitsOf(key)) :
          DigitsOf(key)[i] \in {"0", "1", "2", "3", "4", "5", "6", "7", "8", "9"}
    /\ \E n \in 0..255 : to_string(n) = StripZeros(DigitsOf(key))

DecimalTag(key) == CHOOSE n \in 0..255 : to_string(n) = StripZeros(DigitsOf(key))

\* C11: serialize_field with a field name that is no decimal form of an
\* integer in 0..255 ("256", "-1", "abc", the empty name) is an Err and
\* writes no byte, neither a header nor a payload; with the decimal form of
\* n in 0..255 the pending tag is n: the value is written under tag n.
C11_FieldNameParse ==
    pc = <<"serialize_field">> =>
        LET key == input.key
            before == input.before
        IN  /\ ~IsDecimalTag(key) =>
                  ser.st = "err" /\ ser.writer = before.writer
            /\ key \in {<<>>, <<"2", "5", "6">>, <<"-", "1">>, <<"a", "b", "c">>} =>
                  ser.st = "err" /\ ser.writer = before.writer
            /\ IsDecimalTag(key) =>
                  /\ ser.st = "ok"
                  /\ parse_u8(key) = Some(DecimalTag(key))
                  /\ ser = Serialize(input.v, [before EXCEPT !.next_tag = Some(DecimalTag(key))])
                  /\ \E typ \in 0..13 :
                        SubSeq(ser.writer, Len(before.writer) + 1,
                               Len(before.writer) + Len(HeaderBytes(DecimalTag(key), typ)))
                            = HeaderBytes(DecimalTag(key), typ)

C11_Witness ==
    /\ pc = <<"serialize_field">>
    /\ input.key = <<"2", "5", "6">>
    /\ input.before.writer = <<16, 9>>
    /\ ser.st = "err"
    /\ ser.writer = <<16, 9>>

\* the concatenation of the sequences of a sequence
RECURSIVE Flatten(_)
Flatten(ss) == IF ss = <<>> THEN <<>> ELSE ss[1] \o Flatten(Tail(ss))

\* the bytes of a value under a tag as the format defines them: a record
\* is a type-10 header, its fields and the type-11 sentinel; a sequence is a
\* type-9 header, the count and the elements under their indices; a map is
\* a type-8 header, the count and the keys under tag 0 and values under 1
RECURSIVE Framed(_, _)
Framed(v, tag) ==
    CASE v.k = "struct" ->
            HeaderBytes(tag, 10)
            \o Flatten([i \in 1..Len(v.fields) |-> Framed(v.fields[i].v, TagOf(v.fields[i]))])
            \o <<11>>
      [] v.k \in {"seq", "tuple"} ->
            HeaderBytes(tag, 9) \o LengthBytes(Len(v.items))
            \o Flatten([i \in 1..Len(v.items) |-> Framed(v.items[i], i - 1)])
      [] v.k = "map" ->
            HeaderBytes(tag, 8) \o LengthBytes(Len(v.entries))
            \o Flatten([i \in 1..Len(v.entries) |->
                          Framed(v.entries[i][1], 0) \o Framed(v.entries[i][2], 1)])
      [] v.k = "some" -> Framed(v.v, tag)
      [] v.k = "none" -> <<>>
      [] OTHER -> Serialize(v, [Serializer_new EXCEPT !.next_tag = Some(tag)]).writer

\* the stream of a value encoded on its own: the outermost record has no
\* header and no sentinel
FramedStream(v) ==
    IF v.k = "struct"
    THEN Flatten([i \in 1..Len(v.fields) |-> Framed(v.fields[i].v, TagOf(v.fields[i]))])
    ELSE Framed(v, 0)

\* C12: every record written with a type-10 header is closed by a type-11
\* sentinel and a record written without a header has none, whatever holds
\* the record: another record, a sequence encoded on its own, or a map
\* encoded on its own that has it as a key or as a value.
C12_RecordsClosed ==
    (pc = <<"to_vec">> /\ input \in RecordValues \cup TopLevelContainers) =>
        ser.st = "ok" /\ ser.writer = FramedStream(input)

\* the payload bytes of the fixed-width type codes 0 .. 5
FixedWidth(typ) == <<1, 2, 4, 8, 4, 8>>[typ + 1]

\* the bytes of the raw stream read since its header
Consumed == Len(input.payload) - Len(de.reader)

\* a decode path has read a whole value of a fixed-width type typ
ReadsFixed(typ) ==
    Len(input.payload) >= FixedWidth(typ) => ret.st = "ok" /\ Consumed = FixedWidth(typ)

\* C13: for each type code 0 .. 5 the typed read (get_raw_number,
\* get_number, deserialize_f32, deserialize_f64), skip_type and
\* deserialize_any_value consume the same number of payload bytes: 1, 2,
\* 4, 8, 4 and 8; a value of type 3 is read as 8 bytes on each of them and
\* is the 64-bit value written.
C13_FixedWidthPaths ==
    /\ (pc = <<"new", "get_raw_number">> /\ input.typ \in 0..3) => ReadsFixed(input.typ)
    /\ (pc = <<"new", "next_header", "get_number">> /\ input.typ \in 0..3) =>
          ReadsFixed(input.typ)
    /\ (pc = <<"new", "next_header", "deserialize">> /\ input.typ \in {4, 5}
            /\ target.k \in {"f32", "f64"}) => ReadsFixed(input.typ)
    /\ (pc = <<"new", "next_header", "skip_type">> /\ input.typ \in 0..5) =>
          ReadsFixed(input.typ)
    /\ (pc = <<"new", "next_header", "deserialize_any_value">> /\ input.typ \in 0..5) =>
          ReadsFixed(input.typ)
    /\ (pc = <<"write_number", "new", "next_header", "get_number">>
            /\ NarrowestWidth(input.v) = 8) =>
          ret = [st |-> "ok", v |-> input.v] /\ de.reader = <<>>
    /\ (pc = <<"write_number", "new", "next_header", "deserialize_any_value">>
            /\ NarrowestWidth(input.v) = 8) =>
          ret = [st |-> "ok", v |-> [k |-> "Int64", b |-> input.v]] /\ de.reader = <<>>

\* C14: in every sequence and tuple of at most 255 elements the k-th
\* element (from 0) is written under tag k, also the elements of an outer
\* sequence that come after an element that is itself a sequence.
C14_ElementTags ==
    (pc = <<"to_vec">> /\ input \in FlatSequences \cup NestedSequences) =>
        ser.st = "ok" /\ ser.writer = FramedStream(input)

\* the number of header/payload values a stream holds one after another
\* on top of the n counted so far, -1 when it does not end with the end of
\* a value
RECURSIVE ValuesIn(_, _)
ValuesIn(stream, n) ==
    IF stream = <<>> THEN n
    ELSE LET h == next_header(Deserializer_new(stream))
             r == skip_type(h.de, h.v[2])
         IN  IF h.st # "ok" THEN -1
             ELSE IF r.st # "ok" THEN -1
             ELSE ValuesIn(r.de.reader, n + 1)

\* the values a container of one element (a sequence) or two (a map: key
\* and value) per count holds when its stream is a header of tag 0, the
\* count n and then n elements
CountMatches(stream, typ, per) ==
    \E n \in 0..LongSeqLen + 1 :
        LET head == HeaderBytes(0, typ) \o LengthBytes(n)
        IN  /\ Len(stream) >= Len(head)
            /\ SubSeq(stream, 1, Len(head)) = head
            /\ ValuesIn(SubSeq(stream, Len(head) + 1, Len(stream)), 0) = per * n

CountedContainers ==
    FlatSequences \cup MapContainers \cup KeyValueMaps \cup AbsentContainers
        \cup UnsizedContainers

\* C15: the count written after the type-9 or type-8 header of a sequence
\* or a map is the number of elements (of key/value pairs) written after
\* it, also for a sequence of unknown length, for absent optional elements
\* and values, and for entries given by serialize_key and serialize_value.
C15_CountMatches ==
    (pc = <<"to_vec">> /\ input \in CountedContainers /\ input.k # "struct") =>
        /\ ser.st = "ok"
        /\ CountMatches(ser.writer, IF input.k \in {"map", "map_kv"} THEN 8 ELSE 9,
                        IF input.k \in {"map", "map_kv"} THEN 2 ELSE 1)

\* the calls that decode the record of a record stream: as struct Inner
\* after its header, as the field of struct Outer from the start, by
\* skip_type and by deserialize_any_value
DecodesNested ==
    /\ input \in RecordStreams
    /\ \/ pc = <<"new", "next_header", "deserialize">> /\ target = InnerT
       \/ pc = <<"new", "deserialize">> /\ target = OuterT
       \/ pc = <<"new", "next_header", "skip_type">>
       \/ pc = <<"new", "next_header", "deserialize_any_value">>

\* C16: a nested record (current type 10) whose stream ends, or whose
\* header read fails, before its type-11 sentinel is decoded to an error by
\* the typed path, the skip path and the schema-less path; the end of the
\* stream ends the field loop normally only for the outermost record.
C16_NestedRecordEnds ==
    /\ (DecodesNested /\ input.payload \in UnclosedBodies) => ret.st = "err"
    /\ (DecodesNested /\ input.payload \in ClosedBodies) => ret.st = "ok"

\* the kinds of decoding that need a current type code
NeedsType ==
    {"int", "bool", "f32", "f64", "str", "bytes", "seq", "tuple", "map", "ignored"}

\* C17: a decode operation that needs a current type code and is the first
\* call on a new Deserializer returns an error and reads no byte, whether
\* it decodes an integer, a float, a string, a byte block, a sequence, a
\* map or an ignored value; only record decoding accepts the absent type.
C17_MissingType ==
    /\ (pc = <<"new", "deserialize">> /\ target.k \in NeedsType) =>
          /\ ret.st = "err"
          /\ de.reader = StreamOf(input)
    /\ (pc = <<"new", "deserialize">> /\ target = OuterT
            /\ input \in RecordStreams /\ input.payload \in ClosedBodies) =>
          ret.st = "ok"

\* the header at the start of a stream as the format defines it: tag in
\* the high four bits, type code in the low four, and the tag in a second
\* byte when the high four bits are 15
FreshHeader(stream) ==
    IF stream = <<>> THEN [st |-> "err"]
    ELSE IF stream[1] \div 16 # 15
    THEN [st |-> "ok", v |-> <<stream[1] \div 16, stream[1] % 16>>,
          rest |-> SubSeq(stream, 2, Len(stream))]
    ELSE IF Len(stream) < 2 THEN [st |-> "err"]
    ELSE [st |-> "ok", v |-> <<stream[2], stream[1] % 16>>,
          rest |-> SubSeq(stream, 3, Len(stream))]

\* the last call read a header from the stream position at
ReadsFrom(at) ==
    LET f == FreshHeader(at)
    IN  /\ ret.st = f.st
        /\ f.st = "ok" => (ret.v = f.v /\ de.reader = f.rest)
        /\ de.peeked_header = None

\* the calls so far end with the calls of names
EndsWith(names) ==
    /\ Len(pc) >= Len(names)
    /\ SubSeq(pc, Len(pc) - Len(names) + 1, Len(pc)) = names

\* C18: the next_header after peek_header(tag, typ) returns (tag, typ),
\* reads no byte and empties the slot, and the call after it reads a fresh
\* header at the unchanged position; a second push-back replaces the first;
\* with an empty slot next_header reads from the source.
C18_PushBack ==
    /\ EndsWith(<<"peek_header">>) =>
          de.peeked_header = Some(target.pushed) /\ de.reader = target.at
    /\ EndsWith(<<"peek_header", "next_header">>) =>
          /\ ret = [st |-> "ok", v |-> target.pushed]
          /\ de.reader = target.at
          /\ de.peeked_header = None
    /\ EndsWith(<<"peek_header", "next_header", "next_header">>) =>
          ReadsFrom(target.at)
    /\ pc = <<"new", "next_header">> => ReadsFrom(StreamOf(input))

\* two push-backs before a read: the second header came back, then the
\* header of the stream
C18_Witness ==
    /\ pc = <<"new", "peek_header", "peek_header", "next_header", "next_header">>
    /\ target.pushed = <<200, 0>>
    /\ input.tag = 0 /\ input.typ = 6
    /\ ret = [st |-> "ok", v |-> <<0, 6>>]
    /\ de.reader = input.payload

=============================================================================
